---- MODULE Spec2Model ----
(***************************************************************************)
(* A model of the zero-ioc container (src/src/index.ts): the factory       *)
(* table, the instance cache, the resolve proxy, resolveAll and            *)
(* parameterize.  Each container operation is one action; the recursion    *)
(* of resolve through the factories' dependency reads is computed by the   *)
(* recursive operators below, as the code computes it.                     *)
(***************************************************************************)
EXTENDS Integers, Sequences, FiniteSets, TLC

(***************************************************************************)
(* Bounds                                                                  *)
(***************************************************************************)
\* how many times one factory may be invoked in a run
MaxCalls == 2
\* nesting depth of resolve calls at which the engine's call stack is full
MaxDepth == 3
\* entries in one register batch
MaxBatch == 2

(***************************************************************************)
(* JavaScript values.  Every value is a record [t, k, v]:                  *)
(*   object    - the object created by invocation v of the factory         *)
(*               registered under k (a fresh identity per invocation)      *)
(*   number    - the primitive number v                                    *)
(*   builtin   - the member k of Object.prototype                          *)
(*   container - the container object of createIocContainer() call v       *)
(*   undefined                                                             *)
(***************************************************************************)
Undefined == [t |-> "undefined", k |-> "", v |-> 0]
Container(c) == [t |-> "container", k |-> "", v |-> c]
Num(n) == [t |-> "number", k |-> "", v |-> n]
Obj(key, n) == [t |-> "object", k |-> key, v |-> n]
Builtin(key) == [t |-> "builtin", k |-> key, v |-> 0]

\* ToBoolean, as used by `if (x)` and `!x`
Truthy(val) == ~(val.t = "undefined" \/ (val.t = "number" /\ val.v = 0))

(***************************************************************************)
(* Service names                                                           *)
(***************************************************************************)
\* names the application registers
Names == {"db", "userRepo", "userService"}
\* members of Object.prototype, which every object literal inherits
ProtoKeys == {"constructor"}
Keys == Names \cup ProtoKeys
\* names that are array indices ("integer-like" property keys), and the
\* number each one is
IndexNames == {"1", "2"}
IndexValue(key) == IF key = "1" THEN 1 ELSE 2
IsIndex(key) == key \in IndexNames
NotIndex(key) == key \notin IndexNames

\* obj[key] on an object literal: own property, else Object.prototype's
Get(obj, key) ==
  IF key \in DOMAIN obj THEN obj[key]
  ELSE IF key \in ProtoKeys THEN Builtin(key)
  ELSE Undefined

\* obj[key] = val
Put(obj, key, val) ==
  [x \in DOMAIN obj \cup {key} |-> IF x = key THEN val ELSE obj[x]]

\* `key in obj` on an object literal
HasProperty(obj, key) == key \in DOMAIN obj \/ key \in ProtoKeys

(***************************************************************************)
(* Factories.  A factory is [form, reads, ret, layers, later]:             *)
(*   form   - "arrow" (no prototype), "function" (a function declaration)  *)
(*            or "class"                                                   *)
(*   reads  - the names its body reads off its deps argument, in order     *)
(*   ret    - what the body does after the reads: "object" (returns or     *)
(*            constructs a new object), "counter" (returns n++ of a        *)
(*            module-level counter, 0 first), "prim" (returns the number   *)
(*            42), "throw" (throws)                                        *)
(*   layers - the parameter objects of the parameterize calls wrapped      *)
(*            around it, innermost first; a wrapper holds the object it    *)
(*            was given, not a copy, so a layer is the object's name       *)
(*   later  - the names the instance's methods read off the deps object    *)
(*            the body kept, when they are called                          *)
(***************************************************************************)
Fn(form, reads, ret) ==
  [form |-> form, reads |-> reads, ret |-> ret, layers |-> <<>>, later |-> <<>>]

\* a factory whose instance keeps deps and reads names off it in its methods
Keeping(factory, names) == [factory EXCEPT !.later = names]

\* parameterize(factory, parameters): the wrapper keeps the factory and
\* the parameters object it was given
parameterize(factory, parameters) ==
  [factory EXCEPT !.layers = Append(@, parameters)]

\* the function value a factory is: a parameterize wrapper is an arrow function
FormOf(factory) == IF factory.layers # <<>> THEN "arrow" ELSE factory.form

\* typeof obj === "function" && !!obj.prototype?.constructor
isClass(factory) == FormOf(factory) \in {"function", "class"}

\* what factories[key] is when key is inherited from Object.prototype: a
\* built-in function object
BuiltinFactory == Fn("function", <<>>, "object")

\* the factories the application has for each name
openDatabase == Fn("arrow", <<>>, "object")
nextCounter == Fn("arrow", <<>>, "counter")
failingDatabase == Fn("arrow", <<>>, "throw")
UserRepo == Fn("class", <<"db">>, "object")
createPort == Fn("function", <<"db">>, "prim")
createLoop == Fn("arrow", <<"userService">>, "object")
createUserService == Fn("arrow", <<"db", "userRepo">>, "object")
FailingService == Fn("class", <<"userRepo">>, "throw")
\* the test's createUserRepo, which reads a parameter, and a factory that
\* reads two
createUserRepo == Fn("arrow", <<"db", "id">>, "object")
createAudit == Fn("arrow", <<"db", "id", "userRepo">>, "object")
\* the tests' factories, which read deps only in the methods they return:
\*   (deps) => ({ list: () => deps.db.query("document") })
createDocumentRepo == Keeping(Fn("arrow", <<>>, "object"), <<"db">>)
createListingService == Keeping(Fn("arrow", <<"userRepo">>, "object"), <<"db">>)

\* the parameter objects the application builds, as they are when it
\* builds them: the object of the wrapper above, and the test's { id: 3 }
Literals == [zeroDb |-> [db |-> Num(0)], config |-> [id |-> Num(3)]]

Candidates(name) ==
  CASE name = "db" -> {openDatabase, nextCounter, failingDatabase}
    [] name = "userRepo" -> {UserRepo, createPort, createLoop}
    [] name = "userService" ->
         {createUserService, FailingService,
          parameterize(createUserService, "zeroDb")}
    [] OTHER -> {openDatabase}

(***************************************************************************)
(* Container state and results                                             *)
(***************************************************************************)
VARIABLES
  factories,      \* own properties of the factories object
  ownKeys,        \* Object.keys(factories)
  instanceCache,  \* own properties of the instanceCache object
  invoked,        \* per name: invocations of its factory so far
  failed,         \* names whose factory invocation has thrown
  last,           \* the last call on a container and its outcome
  other,          \* a second container: its factories, ownKeys, instanceCache
  objects         \* the application's parameter objects, by name

vars == <<factories, ownKeys, instanceCache, invoked, failed, last, other, objects>>

Return(val) == [kind |-> "return", val |-> val, err |-> "", key |-> ""]
Throw(err, key) == [kind |-> "throw", val |-> Undefined, err |-> err, key |-> key]

\* Error(`Service "${key}" not found`)
ServiceNotFound(key) == Throw("not found", key)
\* Error(`Service "${key}" already registered`)
DuplicateRegistration(key) == Throw("already registered", key)
\* the error the factory registered under key throws
FactoryError(key) == Throw("factory error", key)
\* RangeError: Maximum call stack size exceeded
StackOverflow == Throw("call stack", "")

\* what a call did, in order:
\*   instantiate - resolve passes deps to the factory registered under key
\*   invoke      - the body of key's factory starts, with deps
\*   get         - key's body starts to read prop off its deps
\*   read        - key's body read prop off its deps and got val
\*   produce     - key's body returned val (or constructed it)
\*   store       - resolve stored val under key in the instance cache
\*   return      - resolve(key) returned val
Event(e, key, prop, val) ==
  [e |-> e, key |-> key, prop |-> prop, val |-> val, deps |-> <<>>]
EventWith(e, key, deps) ==
  [e |-> e, key |-> key, prop |-> "", val |-> Undefined, deps |-> deps]

\* the container state the operators thread through a call
\* (self is the container whose methods run)
Cur ==
  [factories |-> factories, ownKeys |-> ownKeys, instanceCache |-> instanceCache,
   invoked |-> invoked, failed |-> failed, log |-> <<>>, self |-> 1,
   heap |-> objects]

Out(S, res) == [S |-> S, res |-> res]
Logged(S, ev) == [S EXCEPT !.log = Append(@, ev)]

(***************************************************************************)
(* The container's code.  A view is the deps argument a factory body       *)
(* reads: the sequence of parameter objects of the parameterize proxies    *)
(* in front of the container's resolveProxy (<<>> is resolveProxy itself). *)
(* A proxy reads its target object as the object is at the time of the     *)
(* read.                                                                   *)
(***************************************************************************)
RECURSIVE resolve(_, _, _)
RECURSIVE instantiate(_, _, _, _, _)
RECURSIVE runReads(_, _, _, _, _, _)
RECURSIVE viewGet(_, _, _, _)

\* (mutant) a handler that reads the instance cache and resolves nothing
proxyGet_CacheOnly(S, p, depth) == Out(S, Return(Get(S.instanceCache, p)))

\* resolveProxy's handler: get(_, p) { return container.resolve(p) }
proxyGet(S, p, depth) == resolve(S, p, depth)

\* (mutant) a handler that tests target[prop] for truth instead of
\* `prop in target`
parameterGet_Truthy(S, target, deps, prop, depth) ==
  IF Truthy(Get(target, prop))
    THEN Out(S, Return(Get(target, prop)))
    ELSE viewGet(S, deps, prop, depth)

\* depsWithParameters' handler:
\*   if (prop in target) return Reflect.get(target, prop, receiver);
\*   return deps[prop];
parameterGet(S, target, deps, prop, depth) ==
  IF HasProperty(target, prop)
    THEN Out(S, Return(Get(target, prop)))
    ELSE viewGet(S, deps, prop, depth)

\* deps[prop] for the deps object a factory body was given
viewGet(S, view, prop, depth) ==
  IF view = <<>>
    THEN proxyGet(S, prop, depth)
    ELSE parameterGet(S, S.heap[Head(view)], Tail(view), prop, depth)

\* the body's reads off deps, in order; a read that throws ends the body
runReads(S, reads, i, deps, key, depth) ==
  IF i > Len(reads)
    THEN Out(S, Return(Undefined))
    ELSE LET out == viewGet(Logged(S, Event("get", key, reads[i], Undefined)),
                            deps, reads[i], depth + 1)
         IN IF out.res.kind = "throw"
              THEN out
              ELSE runReads(Logged(out.S, Event("read", key, reads[i], out.res.val)),
                            reads, i + 1, deps, key, depth)

\* one run of a factory's own body with deps; n is the number of this invocation
runBody(S, factory, deps, key, depth) ==
  LET n == S.invoked[key] + 1
      S1 == Logged([S EXCEPT !.invoked[key] = n], EventWith("invoke", key, deps))
      out == runReads(S1, factory.reads, 1, deps, key, depth)
      Fail(T) == [T EXCEPT !.failed = @ \cup {key}]
      Produce(val) == Out(Logged(out.S, Event("produce", key, "", val)), Return(val))
  IN IF out.res.kind = "throw" THEN Out(Fail(out.S), out.res)
     ELSE CASE factory.ret = "throw" -> Out(Fail(out.S), FactoryError(key))
            [] factory.ret = "object" -> Produce(Obj(key, n))
            [] factory.ret = "counter" -> Produce(Num(n - 1))
            [] factory.ret = "prim" -> Produce(Num(42))

\* (mutant) a wrapper whose parameters go behind those of the wrappers around it
call_OuterFirst(S, factory, deps, key, depth) ==
  IF factory.layers # <<>>
    THEN LET n == Len(factory.layers)
             wrapped == [factory EXCEPT !.layers = SubSeq(@, 1, n - 1)]
             depsWithParameters == deps \o <<factory.layers[n]>>
         IN instantiate(S, wrapped, depsWithParameters, key, depth)
    ELSE runBody(S, factory, deps, key, depth)

\* factory(deps): the value the function returns.  The function that
\* parameterize returns puts a proxy over its parameters in front of deps
\* and instantiates the wrapped factory with it.
call(S, factory, deps, key, depth) ==
  IF factory.layers # <<>>
    THEN LET n == Len(factory.layers)
             wrapped == [factory EXCEPT !.layers = SubSeq(@, 1, n - 1)]
             depsWithParameters == <<factory.layers[n]>> \o deps
         IN instantiate(S, wrapped, depsWithParameters, key, depth)
    ELSE runBody(S, factory, deps, key, depth)

\* new factory(deps): the object the body returns, else the new `this`
construct(S, factory, deps, key, depth) ==
  LET this == Obj(key, S.invoked[key] + 1)
      out == runBody(S, factory, deps, key, depth)
  IN IF out.res.kind = "throw" \/ out.res.val.t = "object"
       THEN out
       ELSE Out(out.S, Return(this))

\* return isClass(factory) ? new factory(deps) : factory(deps)
instantiate(S, factory, deps, key, depth) ==
  IF isClass(factory)
    THEN construct(S, factory, deps, key, depth)
    ELSE call(S, factory, deps, key, depth)

\* the container's resolveProxy, and the getter `registrations`
resolveProxy == <<>>
registrations == resolveProxy

\* resolve(key) returns val
Returned(S, key, val) ==
  Out(Logged(S, Event("return", key, "", val)), Return(val))

\* (mutant) a resolve that keeps track of the factories being invoked and
\* raises an error of its own when it is asked for one of them
resolve_DetectsCycle(S, key, depth) ==
  IF \E i \in 1..Len(S.log) :
       /\ S.log[i].e = "instantiate" /\ S.log[i].key = key
       /\ ~\E k \in (i + 1)..Len(S.log) :
             S.log[k].e = "produce" /\ S.log[k].key = key
    THEN Out(S, Throw("circular dependency", key))
  ELSE IF depth > MaxDepth THEN Out(S, StackOverflow)
  ELSE IF Truthy(Get(S.instanceCache, key))
    THEN Returned(S, key, Get(S.instanceCache, key))
  ELSE IF ~HasProperty(S.factories, key)
    THEN Out(S, ServiceNotFound(key))
  ELSE LET factory == IF key \in DOMAIN S.factories
                        THEN S.factories[key] ELSE BuiltinFactory
           out == instantiate(Logged(S, EventWith("instantiate", key, resolveProxy)),
                              factory, resolveProxy, key, depth)
       IN IF out.res.kind = "throw"
            THEN out
            ELSE Returned(Logged([out.S EXCEPT !.instanceCache = Put(@, key, out.res.val)],
                                 Event("store", key, "", out.res.val)),
                          key, out.res.val)

\* (mutant) a resolve that looks the factory up in the instance cache
resolve_FactoryFromCache(S, key, depth) ==
  IF depth > MaxDepth THEN Out(S, StackOverflow)
  ELSE IF Truthy(Get(S.instanceCache, key))
    THEN Returned(S, key, Get(S.instanceCache, key))
  ELSE Out(S, ServiceNotFound(key))

\* (mutant) a resolve that catches the factory's failure and caches
\* undefined for the name
resolve_CatchesFailure(S, key, depth) ==
  IF depth > MaxDepth THEN Out(S, StackOverflow)
  ELSE IF Truthy(Get(S.instanceCache, key))
    THEN Returned(S, key, Get(S.instanceCache, key))
  ELSE IF ~HasProperty(S.factories, key)
    THEN Out(S, ServiceNotFound(key))
  ELSE LET factory == IF key \in DOMAIN S.factories
                        THEN S.factories[key] ELSE BuiltinFactory
           out == instantiate(Logged(S, EventWith("instantiate", key, resolveProxy)),
                              factory, resolveProxy, key, depth)
           val == IF out.res.kind = "throw" THEN Undefined ELSE out.res.val
       IN Returned(Logged([out.S EXCEPT !.instanceCache = Put(@, key, val)],
                          Event("store", key, "", val)),
                   key, val)

\* (mutant) a resolve that caches only the name the caller asked for, not
\* the dependencies instantiated on the way
resolve_CachesRequestedOnly(S, key, depth) ==
  IF depth > MaxDepth THEN Out(S, StackOverflow)
  ELSE IF Truthy(Get(S.instanceCache, key))
    THEN Returned(S, key, Get(S.instanceCache, key))
  ELSE IF ~HasProperty(S.factories, key)
    THEN Out(S, ServiceNotFound(key))
  ELSE LET factory == IF key \in DOMAIN S.factories
                        THEN S.factories[key] ELSE BuiltinFactory
           out == instantiate(Logged(S, EventWith("instantiate", key, resolveProxy)),
                              factory, resolveProxy, key, depth)
       IN IF out.res.kind = "throw"
            THEN out
          ELSE IF depth > 1
            THEN Returned(out.S, key, out.res.val)
            ELSE Returned(Logged([out.S EXCEPT !.instanceCache = Put(@, key, out.res.val)],
                                 Event("store", key, "", out.res.val)),
                          key, out.res.val)

\* container.resolve(key); past MaxDepth nested calls the engine throws
resolve(S, key, depth) ==
  IF depth > MaxDepth THEN Out(S, StackOverflow)
  ELSE IF Truthy(Get(S.instanceCache, key))
    THEN Returned(S, key, Get(S.instanceCache, key))
  ELSE IF ~HasProperty(S.factories, key)
    THEN Out(S, ServiceNotFound(key))
  ELSE LET factory == IF key \in DOMAIN S.factories
                        THEN S.factories[key] ELSE BuiltinFactory
           out == instantiate(Logged(S, EventWith("instantiate", key, resolveProxy)),
                              factory, resolveProxy, key, depth)
       IN IF out.res.kind = "throw"
            THEN out
            ELSE Returned(Logged([out.S EXCEPT !.instanceCache = Put(@, key, out.res.val)],
                                 Event("store", key, "", out.res.val)),
                          key, out.res.val)

\* Object.keys of an object after key is added to it: the array indices
\* in ascending numeric order, then the other names in the order they were
\* added
KeysWith(keys, key) ==
  LET indices == SelectSeq(keys, IsIndex)
      others == SelectSeq(keys, NotIndex)
      Below(k) == IndexValue(k) < IndexValue(key)
      Above(k) == IndexValue(k) > IndexValue(key)
  IN IF IsIndex(key)
       THEN SelectSeq(indices, Below) \o <<key>> \o SelectSeq(indices, Above)
            \o others
       ELSE Append(keys, key)

\* (mutant) a loop body that assigns before it tests
registerEntry_AssignsFirst(S, key, factory) ==
  IF HasProperty(S.factories, key)
    THEN Out([S EXCEPT !.factories = Put(@, key, factory)], DuplicateRegistration(key))
    ELSE Out([S EXCEPT !.factories = Put(@, key, factory),
                       !.ownKeys = KeysWith(@, key)],
             Return(Undefined))

\* one iteration of register's loop
registerEntry(S, key, factory) ==
  IF HasProperty(S.factories, key)
    THEN Out(S, DuplicateRegistration(key))
    ELSE Out([S EXCEPT !.factories = Put(@, key, factory),
                       !.ownKeys = KeysWith(@, key)],
             Return(Undefined))

\* register's loop, then `return container`
RECURSIVE registerLoop(_, _, _)
registerLoop(S, entries, i) ==
  IF i > Len(entries) THEN Out(S, Return(Container(S.self)))
  ELSE LET out == registerEntry(S, entries[i][1], entries[i][2])
       IN IF out.res.kind = "throw" THEN out
          ELSE registerLoop(out.S, entries, i + 1)

\* (mutant) a register that instantiates what it registers
register_Eager(S, entries) ==
  LET out == registerLoop(S, entries, 1)
  IN IF out.res.kind = "throw" THEN out
     ELSE Out(resolve(out.S, entries[1][1], 1).S, out.res)

\* (mutant) a register that tests every key before it assigns any
register_ValidatesFirst(S, entries) ==
  LET taken == {i \in 1..Len(entries) : HasProperty(S.factories, entries[i][1])}
  IN IF taken = {} THEN registerLoop(S, entries, 1)
     ELSE Out(S, DuplicateRegistration(
                   entries[CHOOSE i \in taken : \A j \in taken : i <= j][1]))

\* container.register(newFactories); entries is Object.entries(newFactories)
register(S, entries) == registerLoop(S, entries, 1)

\* container.resolveAll(): the reduce over Object.keys(factories)
RECURSIVE resolveAllLoop(_, _, _, _)
resolveAllLoop(S, keys, i, acc) ==
  IF i > Len(keys) THEN [S |-> S, res |-> Return(Undefined), acc |-> acc]
  ELSE LET out == resolve(S, keys[i], 1)
       IN IF out.res.kind = "throw"
            THEN [S |-> out.S, res |-> out.res, acc |-> <<>>]
            ELSE resolveAllLoop(out.S, keys, i + 1, Put(acc, keys[i], out.res.val))

\* (mutant) a resolveAll that puts the instance cache back when it fails
resolveAll_RollsBack(S) ==
  LET out == resolveAllLoop(S, S.ownKeys, 1, <<>>)
  IN IF out.res.kind = "throw"
       THEN [out EXCEPT !.S.instanceCache = S.instanceCache]
       ELSE out

resolveAll(S) == resolveAllLoop(S, S.ownKeys, 1, <<>>)

(***************************************************************************)
(* The state machine                                                       *)
(***************************************************************************)
\* a call on the container and its result; key is resolve's argument, or
\* the first key of register's
Call(op, key, res) == [op |-> op, key |-> key, res |-> res]

\* the tables createIocContainer() creates for the container it returns
Fresh == [factories |-> <<>>, ownKeys |-> <<>>, instanceCache |-> <<>>]

\* createIocContainer(), twice
Init ==
  /\ factories = Fresh.factories
  /\ ownKeys = Fresh.ownKeys
  /\ instanceCache = Fresh.instanceCache
  /\ other = Fresh
  /\ objects = Literals
  /\ invoked = [n \in Keys \cup IndexNames |-> 0]
  /\ failed = {}
  /\ last = Call("create", "", Return(Undefined))

WithinCalls(S) == \A n \in DOMAIN S.invoked : S.invoked[n] <= MaxCalls

Commit(S) ==
  /\ factories' = S.factories
  /\ ownKeys' = S.ownKeys
  /\ instanceCache' = S.instanceCache
  /\ invoked' = S.invoked
  /\ failed' = S.failed
  /\ other' = other
  /\ objects' = objects

\* the factory a name gets when it is registered together with others
Primary(name) ==
  CASE name = "db" -> openDatabase
    [] name = "userRepo" -> UserRepo
    [] name = "userService" -> createUserService
    [] OTHER -> openDatabase

\* the arguments a register call may be given, as Object.entries lists
\* them: one name with any of its factories, or up to MaxBatch names
RECURSIVE KeyLists(_)
KeyLists(n) ==
  IF n = 0 THEN {<<>>}
  ELSE LET shorter == KeyLists(n - 1)
       IN shorter \cup
          {Append(l, k) : l \in {x \in shorter : Len(x) = n - 1},
                          k \in Names \cup ProtoKeys}

Distinct(l) == \A i, j \in 1..Len(l) : i # j => l[i] # l[j]

Batches ==
  UNION {{<<(<<n, f>>)>> : f \in Candidates(n)} : n \in Names \cup ProtoKeys}
  \cup {[i \in 1..Len(l) |-> <<l[i], Primary(l[i])>>] :
          l \in {x \in KeyLists(MaxBatch) : Len(x) >= 2 /\ Distinct(x)}}

\* Each action makes its call once and binds the call's outcome (the state
\* it leaves and its result) to out.
RegisterWith(entries) ==
  \E out \in {register(Cur, entries)} :
     /\ Commit(out.S)
     /\ last' = Call("register", entries[1][1], out.res)

Register == \E entries \in Batches : RegisterWith(entries)

Resolve ==
  \E key \in Keys :
    \E out \in {resolve(Cur, key, 1)} :
       /\ WithinCalls(out.S)
       /\ Commit(out.S)
       /\ last' = Call("resolve", key, out.res)

\* container.registrations[p]
RegistrationsGet ==
  \E p \in Keys :
    \E out \in {viewGet(Cur, registrations, p, 1)} :
       /\ WithinCalls(out.S)
       /\ Commit(out.S)
       /\ last' = Call("registrations", p, out.res)

ResolveAll ==
  \E out \in {resolveAll(Cur)} :
     /\ WithinCalls(out.S)
     /\ Commit(out.S)
     /\ last' = Call("resolveAll", "", out.res)

Next == Register \/ Resolve \/ RegistrationsGet \/ ResolveAll

Spec == Init /\ [][Next]_vars

(***************************************************************************)
(* Two containers.  The first is the container above; the calls below are  *)
(* made on the second.  Each container's methods close over the factories  *)
(* and instanceCache objects of its own createIocContainer() call; the     *)
(* factory functions and their invocation counts belong to the             *)
(* application, not to a container.                                        *)
(***************************************************************************)
\* (mutant) an instanceCache declared at module level, shared by all containers
CurOther_SharedCache ==
  [Cur EXCEPT !.factories = other.factories, !.ownKeys = other.ownKeys,
              !.self = 2]

\* the state the second container's methods work on
CurOther ==
  [Cur EXCEPT !.factories = other.factories, !.ownKeys = other.ownKeys,
              !.instanceCache = other.instanceCache, !.self = 2]

CommitOther(S) ==
  /\ other' = [factories |-> S.factories, ownKeys |-> S.ownKeys,
               instanceCache |-> S.instanceCache]
  /\ invoked' = S.invoked
  /\ failed' = S.failed
  /\ UNCHANGED <<factories, ownKeys, instanceCache, objects>>

\* what the application registers in either container: db and userRepo
TwoBatches ==
  {b \in Batches : \A i \in 1..Len(b) :
     b[i][1] \in {"db", "userRepo"} /\ b[i][2] = Primary(b[i][1])}

RegisterTwo == \E entries \in TwoBatches : RegisterWith(entries)

OtherRegister ==
  \E entries \in TwoBatches :
    \E out \in {register(CurOther, entries)} :
       /\ CommitOther(out.S)
       /\ last' = Call("other.register", entries[1][1], out.res)

OtherResolve ==
  \E key \in Keys :
    \E out \in {resolve(CurOther, key, 1)} :
       /\ WithinCalls(out.S)
       /\ CommitOther(out.S)
       /\ last' = Call("other.resolve", key, out.res)

OtherRegistrationsGet ==
  \E p \in Keys :
    \E out \in {viewGet(CurOther, registrations, p, 1)} :
       /\ WithinCalls(out.S)
       /\ CommitOther(out.S)
       /\ last' = Call("other.registrations", p, out.res)

OtherResolveAll ==
  \E out \in {resolveAll(CurOther)} :
     /\ WithinCalls(out.S)
     /\ CommitOther(out.S)
     /\ last' = Call("other.resolveAll", "", out.res)

NextTwo ==
  \/ RegisterTwo \/ Resolve \/ RegistrationsGet \/ ResolveAll
  \/ OtherRegister \/ OtherResolve \/ OtherRegistrationsGet \/ OtherResolveAll

SpecTwo == Init /\ [][NextTwo]_vars

(***************************************************************************)
(* Parameter objects that change.  The application builds its wrappers     *)
(* with parameterize when it starts, from the objects as Init has them,    *)
(* keeps the config object, and may assign or delete a key of it at any    *)
(* time.                                                                   *)
(***************************************************************************)
ParameterizedCandidates(name) ==
  CASE name = "db" -> {openDatabase}
    [] name = "userRepo" -> {parameterize(createUserRepo, "config")}
    [] name = "userService" ->
         {parameterize(parameterize(createAudit, "zeroDb"), "config")}

ParameterizedBatches ==
  UNION {{<<(<<n, f>>)>> : f \in ParameterizedCandidates(n)} : n \in Names}

RegisterParameterized ==
  \E entries \in ParameterizedBatches : RegisterWith(entries)

\* delete obj[key]
Delete(obj, key) == [x \in DOMAIN obj \ {key} |-> obj[x]]

\* the assignments and deletions the application makes on config
Assignments == {<<"id", Num(4)>>, <<"db", Num(5)>>}

\* config[key] = val, or delete config[key]
MutateParameters ==
  /\ \/ \E a \in Assignments :
          /\ objects' = [objects EXCEPT !.config = Put(@, a[1], a[2])]
          /\ last' = Call("assign", a[1], Return(a[2]))
     \/ \E key \in DOMAIN objects.config :
          /\ objects' = [objects EXCEPT !.config = Delete(@, key)]
          /\ last' = Call("delete", key, Return(Undefined))
  /\ UNCHANGED <<factories, ownKeys, instanceCache, invoked, failed, other>>

NextParameters ==
  \/ RegisterParameterized \/ Resolve \/ RegistrationsGet \/ ResolveAll
  \/ MutateParameters

SpecParameters == Init /\ [][NextParameters]_vars

(***************************************************************************)
(* Instances that keep deps.  The factories of the tests read nothing      *)
(* while they construct: the instance keeps the deps object and reads it   *)
(* when one of its methods is called.                                      *)
(***************************************************************************)
KeepingCandidates(name) ==
  CASE name = "db" -> {openDatabase}
    [] name = "userRepo" -> {UserRepo, createDocumentRepo}
    [] name = "userService" -> {createUserService, createListingService}

KeepingBatches ==
  UNION {{<<(<<n, f>>)>> : f \in KeepingCandidates(n)} : n \in Names}

RegisterKeeping == \E entries \in KeepingBatches : RegisterWith(entries)

\* the deps object the body of a factory was given: the proxies of its
\* wrappers, innermost first, in front of the container's
RECURSIVE ViewOf(_)
ViewOf(layers) ==
  IF layers = <<>> THEN resolveProxy
  ELSE <<Head(layers)>> \o ViewOf(Tail(layers))

\* instance.method(): a method of the instance resolve(key) has returned
\* reads off the deps object the instance kept
UseInstance ==
  \E key \in DOMAIN factories \cap DOMAIN instanceCache :
    /\ factories[key].later # <<>>
    /\ \E out \in {runReads(Cur, factories[key].later, 1,
                              ViewOf(factories[key].layers), key, 0)} :
          /\ WithinCalls(out.S)
          /\ Commit(out.S)
          /\ last' = Call("method", key, out.res)

NextKeeping ==
  \/ RegisterKeeping \/ Resolve \/ RegistrationsGet \/ ResolveAll
  \/ UseInstance

SpecKeeping == Init /\ [][NextKeeping]_vars

(***************************************************************************)
(* One name per register call: the order of the table is then the order    *)
(* of the register calls that filled it.                                   *)
(***************************************************************************)
RegisterOne ==
  \E entries \in {b \in Batches : Len(b) = 1} : RegisterWith(entries)

NextOrdered == RegisterOne \/ Resolve \/ RegistrationsGet \/ ResolveAll

SpecOrdered == Init /\ [][NextOrdered]_vars

(***************************************************************************)
(* Names that are array indices.  The application registers services under *)
(* "1" and "2" as well as under db, one name per register call:            *)
(*   container.register({ db: openDatabase }).register({ 1: openDatabase })*)
(***************************************************************************)
NumberedBatches ==
  {<<(<<n, Primary(n)>>)>> : n \in {"db"} \cup IndexNames}

RegisterNumbered == \E entries \in NumberedBatches : RegisterWith(entries)

ResolveNumbered ==
  \E key \in IndexNames :
    \E out \in {resolve(Cur, key, 1)} :
       /\ WithinCalls(out.S)
       /\ Commit(out.S)
       /\ last' = Call("resolve", key, out.res)

NextNumbered == RegisterNumbered \/ Resolve \/ ResolveNumbered \/ ResolveAll

SpecNumbered == Init /\ [][NextNumbered]_vars

(***************************************************************************)
(* Properties.  A call's result and what it did are those of the code's    *)
(* operator applied to the current state, so a property of a call is       *)
(* stated of every call that can be made in every reachable state.         *)
(***************************************************************************)
\* the events of kind e in a call's log
EventsOf(log, e) == {i \in 1..Len(log) : log[i].e = e}

\* the parameters object the wrapper of key's factory puts in front of
\* the container's view (none when the factory is not parameterized)
OuterParameters(key) ==
  IF key \in DOMAIN factories /\ factories[key].layers # <<>>
    THEN objects[factories[key].layers[Len(factories[key].layers)]]
    ELSE <<>>

\* what a caller can observe of a call: its result, the container's tables
\* and the factory invocations made
Observable(out) ==
  [res |-> out.res, factories |-> out.S.factories, ownKeys |-> out.S.ownKeys,
   instanceCache |-> out.S.instanceCache, invoked |-> out.S.invoked]

\* C1: the factory registered under a name is invoked at most once, whatever
\* value it returns, provided no invocation of it has failed.
C1_InvokedAtMostOnce ==
  \A n \in Names : n \notin failed => invoked[n] <= 1

\* C2: once resolve(n) has returned an instance, a later resolve(n) and a
\* later read of n off the dependency view return that same instance.
C2_SameInstanceEveryTime ==
  (last.op \in {"resolve", "registrations"} /\ last.res.kind = "return") =>
    /\ resolve(Cur, last.key, 1).res = last.res
    /\ viewGet(Cur, registrations, last.key, 1).res = last.res

\* C3: the value B's factory reads for name A off the container's dependency
\* view is the instance a direct resolve(A) returns, whether that resolve
\* comes after B is resolved or came before it.
C3_ReadIsResolvedInstance ==
  \A B \in Keys :
    /\ LET out == resolve(Cur, B, 1)
       IN \A i \in EventsOf(out.S.log, "read") :
            LET ev == out.S.log[i]
            IN ev.prop \notin DOMAIN OuterParameters(ev.key) =>
                 resolve(out.S, ev.prop, 1).res = Return(ev.val)
    /\ \A A \in Keys :
         LET direct == resolve(Cur, A, 1)
             out == resolve(direct.S, B, 1)
         IN direct.res.kind = "return" =>
              \A i \in EventsOf(out.S.log, "read") :
                LET ev == out.S.log[i]
                IN (ev.prop = A /\ A \notin DOMAIN OuterParameters(ev.key)) =>
                     Return(ev.val) = direct.res

\* C4: resolve(name) and registrations[name] fail with ServiceNotFound for
\* every name that no register call has inserted into the factory table.
C4_UnregisteredNotFound ==
  (last.op \in {"resolve", "registrations"} /\ last.key \notin DOMAIN factories)
    => last.res = ServiceNotFound(last.key)

\* C5: a register call whose batch contains a name already in the factory
\* table fails with DuplicateRegistration for a name of the batch (a name of
\* the table when the batch has only application names), and leaves every
\* factory already in the table and the whole instance cache as they were.
C5_DuplicateRejected ==
  /\ \A entries \in Batches :
       LET keys == {entries[i][1] : i \in 1..Len(entries)}
           out == register(Cur, entries)
       IN keys \cap DOMAIN factories # {} =>
            /\ out.res.kind = "throw"
            /\ out.res.err = "already registered"
            /\ out.res.key \in keys
            /\ keys \subseteq Names => out.res.key \in DOMAIN factories
            /\ \A n \in DOMAIN factories :
                 n \in DOMAIN out.S.factories /\ out.S.factories[n] = factories[n]
            /\ out.S.instanceCache = instanceCache
  /\ (last.op = "register" /\ last.res.kind = "throw") =>
       last.res = DuplicateRegistration(last.res.key)

C5_Witness ==
  /\ last.op = "register"
  /\ last.res.err = "already registered"
  /\ last.res.key \in DOMAIN instanceCache

\* C6: reading key k off container.registrations does what resolve(k) does
\* in every container state (same result or error, same invocations, same
\* cache), and registrations is the object every factory is invoked with.
C6_RegistrationsIsResolve ==
  \A k \in Keys :
    LET out == resolve(Cur, k, 1)
    IN /\ viewGet(Cur, registrations, k, 1) = out
       /\ \A i \in EventsOf(out.S.log, "instantiate") :
            out.S.log[i].deps = registrations

C6_Witness ==
  /\ last.op = "registrations"
  /\ last.res.kind = "return"
  /\ last.key = "userService"
  /\ \A n \in Names : invoked[n] = 1

\* C7: when no factory fails, resolveAll() returns one entry per registered
\* name and each entry is what resolve(name) returns for that name.
C7_ResolveAllMatchesResolve ==
  LET out == resolveAll(Cur)
  IN out.res.kind = "return" =>
       /\ DOMAIN out.acc = DOMAIN factories
       /\ \A n \in DOMAIN factories : resolve(out.S, n, 1).res = Return(out.acc[n])

\* parameter objects given to parameterize (test: { id: 3 }), and the keys
\* a wrapped factory may read
ParameterObjects ==
  {[db |-> Num(0)], [id |-> Num(3)], [db |-> Obj("db", 0), id |-> Num(0)]}
ParameterKeys == Keys \cup {"id"}

\* C8: the factory parameterize(f, params) returns invokes f with a view in
\* which every key of params reads as params' value, registered or not, and
\* every other key reads as the ambient view's value for it.
C8_ParametersShadowView ==
  /\ \A params \in ParameterObjects, k \in ParameterKeys :
       Observable(parameterGet(Cur, params, resolveProxy, k, 1)) =
         IF k \in DOMAIN params
           THEN Observable(Out(Cur, Return(params[k])))
           ELSE Observable(viewGet(Cur, resolveProxy, k, 1))
  /\ \A key \in Keys :
       LET log == resolve(Cur, key, 1).S.log
       IN /\ \A i \in EventsOf(log, "invoke") :
               OuterParameters(log[i].key) # <<>> =>
                 log[i].deps = factories[log[i].key].layers \o resolveProxy
          /\ \A i \in EventsOf(log, "read") :
               LET params == OuterParameters(log[i].key)
               IN params # <<>> =>
                    IF log[i].prop \in DOMAIN params
                      THEN log[i].val = params[log[i].prop]
                      ELSE \E j \in EventsOf(log, "return") :
                             /\ j < i
                             /\ log[j].key = log[i].prop
                             /\ log[j].val = log[i].val

C8_Witness ==
  /\ last.op = "resolve"
  /\ last.res.kind = "return"
  /\ OuterParameters(last.key) # <<>>
  /\ invoked[last.key] = 1
  /\ DOMAIN OuterParameters(last.key) \subseteq DOMAIN instanceCache

\* C9: for a plain function and for a class alike, resolve(name) returns and
\* caches exactly the value the factory produced: the value the function
\* returned, or the object the class constructed.
C9_StoresWhatFactoryProduced ==
  \A key \in Keys :
    LET out == resolve(Cur, key, 1)
        log == out.S.log
    IN \A i \in EventsOf(log, "store") :
         \E j \in EventsOf(log, "produce") :
           /\ j < i
           /\ log[j].key = log[i].key
           /\ log[j].val = log[i].val
           /\ log[i].key = key => out.res = Return(log[j].val)

\* C10: when the factory of n fails during invocation, resolve(n) fails with
\* that same failure, n is not added to the instance cache, and a later
\* resolve(n) invokes the factory again.
C10_FailurePropagatesUncached ==
  \A n \in DOMAIN factories :
    ~Truthy(Get(instanceCache, n)) =>
      LET made == instantiate(Cur, factories[n], resolveProxy, n, 1)
          out == resolve(Cur, n, 1)
      IN /\ out.S.invoked[n] > invoked[n]
         /\ made.res.kind = "throw" =>
              /\ out.res = made.res
              /\ out.S.instanceCache = made.S.instanceCache
              /\ n \in DOMAIN out.S.instanceCache => n \in DOMAIN instanceCache
              /\ resolve(out.S, n, 1).S.invoked[n] > out.S.invoked[n]

C10_Witness ==
  /\ last.op = "resolve"
  /\ last.res = FactoryError(last.key)
  /\ invoked[last.key] >= 2
  /\ last.key \notin DOMAIN instanceCache

\* C11: the factory table is append-only: in every step a name that is in
\* the table stays in it, mapped to the same factory.
C11_TableAppendOnly ==
  [][\A n \in DOMAIN factories :
       n \in DOMAIN factories' /\ factories'[n] = factories[n]]_vars

\* a register call succeeded on a table that already held a name
C11_Witness ==
  /\ last.op = "register"
  /\ last.res.kind = "return"
  /\ Len(ownKeys) > MaxBatch

OtherOps ==
  {"other.register", "other.resolve", "other.registrations", "other.resolveAll"}

\* C12: a call on one container leaves the other container's factory table
\* and instance cache as they were, and a name registered in both containers
\* has a separately created instance in each.
C12_ContainersShareNothing ==
  /\ [][IF last'.op \in OtherOps
          THEN UNCHANGED <<factories, ownKeys, instanceCache>>
          ELSE other' = other]_vars
  /\ [](\A n \in DOMAIN instanceCache \cap DOMAIN other.instanceCache :
          instanceCache[n] # other.instanceCache[n])

\* both containers hold db and userRepo, each resolved in each
C12_Witness ==
  /\ last.op = "other.resolve"
  /\ last.res.kind = "return"
  /\ {"db", "userRepo"} \subseteq DOMAIN instanceCache
  /\ {"db", "userRepo"} \subseteq DOMAIN other.instanceCache

\* C13: a register call that succeeds returns the container it was called
\* on, invokes no factory and leaves the instance cache as it was; a factory
\* is invoked only in a step that resolves (resolve, a read off
\* registrations, or resolveAll).
C13_RegisterOnlyRegisters ==
  /\ [](\A S \in {Cur, CurOther} : \A entries \in Batches :
          LET out == register(S, entries)
          IN out.res.kind = "return" =>
               /\ out.res.val = Container(S.self)
               /\ out.S.invoked = invoked
               /\ out.S.instanceCache = S.instanceCache
               /\ EventsOf(out.S.log, "invoke") = {})
  /\ [][invoked' # invoked =>
          last'.op \in {"resolve", "registrations", "resolveAll"}]_vars

\* a register call succeeded after instances had been cached, and a name
\* it left in the table has never been instantiated
C13_Witness ==
  /\ last.op = "register"
  /\ last.res = Return(Container(1))
  /\ instanceCache # <<>>
  /\ \E n \in DOMAIN factories : invoked[n] = 0

\* C14: resolve(n) for a name n present in the instance cache returns the
\* cached value, invokes no factory and leaves the factory table and the
\* instance cache as they were.
C14_CachedResolveChangesNothing ==
  \A n \in DOMAIN instanceCache :
    LET out == resolve(Cur, n, 1)
    IN /\ out.res = Return(instanceCache[n])
       /\ out.S.invoked = invoked
       /\ out.S.factories = factories
       /\ out.S.instanceCache = instanceCache

\* what the parameter objects of a wrapper's layers supply for prop when
\* the objects are as in heap: the value of the innermost layer that has
\* prop, or nothing
Supplied(heap, layers, prop) ==
  LET has == {i \in 1..Len(layers) : prop \in DOMAIN heap[layers[i]]}
  IN IF has = {} THEN {}
     ELSE {heap[layers[CHOOSE i \in has : \A j \in has : i <= j]][prop]}

\* the read events, in the log of a call, of bodies whose factory is
\* wrapped in at least n parameterize layers
WrappedReads(log, n) ==
  {i \in EventsOf(log, "read") : Len(factories[log[i].key].layers) >= n}

\* the read log[i] got the value resolve returned for its key
ReadFromView(log, i) ==
  \E j \in EventsOf(log, "return") :
    j < i /\ log[j].key = log[i].prop /\ log[j].val = log[i].val

\* C15: what a wrapped factory reads is fixed by the parameter objects as
\* they were when parameterize was called: a key they held then reads as
\* the value it had then, and a key they did not hold reads off the view,
\* whatever has been assigned or deleted since.
C15_ParametersCapturedAtWrap ==
  \A key \in Names :
    LET log == resolve(Cur, key, 1).S.log
    IN \A i \in WrappedReads(log, 1) :
         LET then == Supplied(Literals, factories[log[i].key].layers, log[i].prop)
         IN IF then # {} THEN log[i].val \in then ELSE ReadFromView(log, i)

\* C16: a factory wrapped twice, parameterize(parameterize(f, p1), p2),
\* can be registered, and when it is invoked f reads a key of p1 as p1's
\* value, a key only in p2 as p2's value, and any other key off the view.
C16_NestedParameters ==
  \A key \in Names :
    LET log == resolve(Cur, key, 1).S.log
    IN \A i \in WrappedReads(log, 2) :
         LET p1 == objects[factories[log[i].key].layers[1]]
             p2 == objects[factories[log[i].key].layers[2]]
         IN IF log[i].prop \in DOMAIN p1 THEN log[i].val = p1[log[i].prop]
            ELSE IF log[i].prop \in DOMAIN p2 THEN log[i].val = p2[log[i].prop]
            ELSE ReadFromView(log, i)

\* the twice-wrapped factory has been invoked and has returned, with a key
\* in both parameter objects and a key only in the outer one
C16_Witness ==
  /\ last.op = "resolve"
  /\ last.key = "userService"
  /\ last.res.kind = "return"
  /\ Len(factories["userService"].layers) = 2
  /\ {"db", "id"} \subseteq DOMAIN objects.config
  /\ "userRepo" \in DOMAIN instanceCache

\* the services the instance of a factory relies on: the names its body
\* and its methods read off deps that its parameter objects do not supply
Dependencies(factory) ==
  {n \in {factory.reads[i] : i \in 1..Len(factory.reads)}
         \cup {factory.later[i] : i \in 1..Len(factory.later)} :
     Supplied(objects, factory.layers, n) = {}}

\* C17: when resolve(key) returns, every registered service that an
\* instance created during the call relies on is in the instance cache.
C17_DependenciesResolvedOnReturn ==
  \A key \in DOMAIN factories :
    LET out == resolve(Cur, key, 1)
    IN out.res.kind = "return" =>
         \A i \in EventsOf(out.S.log, "store") :
           Dependencies(factories[out.S.log[i].key]) \cap DOMAIN factories
             \subseteq DOMAIN out.S.instanceCache

\* a call that fails with ServiceNotFound names a key that is not in the
\* factory table
FoundIfRegistered(out) ==
  (out.res.kind = "throw" /\ out.res.err = "not found") =>
    out.res.key \notin DOMAIN factories

\* every read a body or a method made off the container's view during a
\* call got the instance of the name it read
ReadsInstances(out) ==
  \A i \in EventsOf(out.S.log, "read") :
    LET ev == out.S.log[i]
    IN Supplied(objects, factories[ev.key].layers, ev.prop) = {} =>
         /\ ev.prop \in DOMAIN out.S.instanceCache
         /\ ev.val = out.S.instanceCache[ev.prop]

\* the reads the methods of key's instance make, as a call
MethodReads(key) ==
  runReads(Cur, factories[key].later, 1, ViewOf(factories[key].layers), key, 0)

\* C18: a read of m off the dependency view, by a factory body or by a
\* method of an instance, finds m whenever m is in the factory table at the
\* moment of the read, in whatever order and batches the names were
\* registered: it yields m's instance and never fails with ServiceNotFound.
C18_ViewIsLive ==
  /\ \A key \in Keys :
       LET out == resolve(Cur, key, 1)
       IN FoundIfRegistered(out) /\ ReadsInstances(out)
  /\ \A key \in DOMAIN factories \cap DOMAIN instanceCache :
       LET out == MethodReads(key)
       IN FoundIfRegistered(out) /\ ReadsInstances(out)

\* a method of userRepo's instance has read db, which was registered after
\* userRepo and after userRepo's instance was created
C18_Witness ==
  /\ last = Call("method", "userRepo", Return(Undefined))
  /\ ownKeys = <<"userRepo", "db">>
  /\ invoked["db"] = 1

\* C19: a register call, of application names, that fails with
\* DuplicateRegistration leaves the factory table exactly as it was before
\* the call.
C19_FailedRegisterCommitsNothing ==
  \A S \in {Cur, CurOther} : \A entries \in Batches :
    LET out == register(S, entries)
    IN ({entries[i][1] : i \in 1..Len(entries)} \subseteq Names
          /\ out.res.kind = "throw") =>
         out.S.factories = S.factories /\ out.S.ownKeys = S.ownKeys

\* C19 as the code has it: a register call that fails with
\* DuplicateRegistration fails at the first entry of the batch, in the
\* order of Object.entries, whose key the table has, as its own or from
\* Object.prototype; it has added the
\* entries before that one to the table, in order, and none from that one
\* on, and the entries the table had are as they were.
C19_FailedRegisterCommitsPrefix ==
  \A S \in {Cur, CurOther} : \A entries \in Batches :
    LET out == register(S, entries)
    IN out.res.kind = "throw" =>
         \E i \in 1..Len(entries) :
           /\ out.res = DuplicateRegistration(entries[i][1])
           /\ HasProperty(S.factories, entries[i][1])
           /\ out.S.ownKeys = S.ownKeys \o [j \in 1..(i - 1) |-> entries[j][1]]
           /\ DOMAIN out.S.factories =
                DOMAIN S.factories \cup {entries[j][1] : j \in 1..(i - 1)}
           /\ \A n \in DOMAIN S.factories : out.S.factories[n] = S.factories[n]
           /\ \A j \in 1..(i - 1) : out.S.factories[entries[j][1]] = entries[j][2]

\* a register call failed at its second entry and left its first in the table
C19_Witness ==
  /\ last.op = "register"
  /\ last.res.err = "already registered"
  /\ last.key # last.res.key
  /\ last.key \in DOMAIN factories
  /\ ownKeys[Len(ownKeys)] = last.key

\* the place of a registered name in the table
IndexOf(n) == CHOOSE i \in 1..Len(ownKeys) : ownKeys[i] = n

\* the names the body of a factory reads off the container's view
ViewReads(factory) ==
  {n \in {factory.reads[i] : i \in 1..Len(factory.reads)} :
     Supplied(objects, factory.layers, n) = {}}

\* every registered factory reads, while it constructs, only names that
\* an earlier register call than its own put in the table
ReadsOnlyEarlier ==
  \A n \in DOMAIN factories : \A r \in ViewReads(factories[n]) :
    r \in DOMAIN factories /\ IndexOf(r) < IndexOf(n)

\* in a call's log, resolve reaches a factory while an earlier invocation
\* of the same factory has not yet produced its instance
Reentered(log) ==
  \E i, j \in EventsOf(log, "instantiate") :
    /\ i < j
    /\ log[i].key = log[j].key
    /\ ~\E k \in EventsOf(log, "produce") :
          i < k /\ k < j /\ log[k].key = log[i].key

\* C20: if every factory reads, while it constructs, only names registered
\* by an earlier register call than its own, then every resolve of a
\* registered name returns an instance, and so does not fail with
\* ServiceNotFound, and enters no factory whose invocation is in progress.
C20_OrderedResolveReturns ==
  ReadsOnlyEarlier =>
    \A n \in DOMAIN factories :
      LET out == resolve(Cur, n, 1)
      IN out.res.kind = "return" /\ ~Reentered(out.S.log)

\* C20 as the code has it: under the same condition every resolve of a
\* registered name either returns an instance or fails with the error a
\* factory threw; it does not fail with ServiceNotFound or a full call
\* stack, and enters no factory whose invocation is in progress.
C20_OrderedResolveEnds ==
  ReadsOnlyEarlier =>
    \A n \in DOMAIN factories :
      LET out == resolve(Cur, n, 1)
      IN /\ out.res.kind = "return" \/ out.res.err = "factory error"
         /\ ~Reentered(out.S.log)

\* userService has been resolved through userRepo and db, each registered
\* by an earlier call than the factory that reads it
C20_Witness ==
  /\ ReadsOnlyEarlier
  /\ ownKeys = <<"db", "userRepo", "userService">>
  /\ last.op = "resolve"
  /\ last.key = "userService"
  /\ last.res.kind = "return"
  /\ ViewReads(factories["userService"]) = {"db", "userRepo"}
  /\ ViewReads(factories["userRepo"]) = {"db"}

\* at place i of a call's log the factory of name n has been entered and
\* has not yet produced its instance
InProgress(log, i, n) ==
  \E j \in EventsOf(log, "instantiate") :
    /\ j < i
    /\ log[j].key = n
    /\ ~\E k \in EventsOf(log, "produce") : j < k /\ k < i /\ log[k].key = n

\* the places of a call's log where a body starts to read, off the
\* container's view, a name whose own factory is in progress
CyclicReads(log) ==
  {i \in EventsOf(log, "get") :
     /\ Supplied(objects, factories[log[i].key].layers, log[i].prop) = {}
     /\ InProgress(log, i, log[i].prop)}

\* C21: when, during resolve(n), a factory reads off the view a name whose
\* factory is in progress (n's own, read directly or through other
\* factories), the container raises no error of its own: it enters that
\* factory again, and resolve(n) ends when the engine's call stack is full,
\* with no instance returned and none cached for the names in progress.
C21_NoCycleDetection ==
  \A n \in DOMAIN factories :
    LET out == resolve(Cur, n, 1)
        log == out.S.log
    IN CyclicReads(log) # {} =>
         /\ out.res = StackOverflow
         /\ Reentered(log)
         /\ \A i \in CyclicReads(log) :
              /\ log[i].prop \in DOMAIN out.S.instanceCache
                   => log[i].prop \in DOMAIN instanceCache
              /\ out.S.invoked[log[i].prop] > invoked[log[i].prop]

\* resolve('userRepo') has ended on a full call stack after userRepo's
\* factory was entered twice, through userService's
C21_Witness ==
  /\ last = Call("resolve", "userRepo", StackOverflow)
  /\ factories["userRepo"] = createLoop
  /\ invoked["userRepo"] = 2
  /\ invoked["userService"] = 1
  /\ "userRepo" \notin DOMAIN instanceCache

\* the keys of a register call's argument
KeysOf(entries) == {entries[i][1] : i \in 1..Len(entries)}

\* C22: register checks no dependencies: a register call fails only when
\* its batch holds a name that is already in the factory table, whatever
\* the factories of the batch read; a name that a factory reads and that is
\* not registered shows only when a resolution reads it, as ServiceNotFound
\* for that name.
C22_RegisterChecksOnlyDuplicates ==
  /\ \A entries \in Batches :
       register(Cur, entries).res.kind = "throw" =>
         KeysOf(entries) \cap DOMAIN factories # {}
  /\ \A n \in DOMAIN factories :
       LET out == resolve(Cur, n, 1)
       IN \A i \in EventsOf(out.S.log, "get") :
            LET ev == out.S.log[i]
            IN (/\ Supplied(objects, factories[ev.key].layers, ev.prop) = {}
                /\ ev.prop \notin DOMAIN factories)
                 => out.res = ServiceNotFound(ev.prop)

\* C23: when resolveAll() fails, it fails with the failure of the first
\* name of the table whose resolution fails, and every name before that
\* one is in the instance cache afterwards, with whatever was cached before
\* the call.
C23_ResolveAllKeepsPartialSuccess ==
  LET out == resolveAll(Cur)
  IN out.res.kind = "throw" =>
       /\ \E i \in 1..Len(ownKeys) :
            /\ \A j \in 1..(i - 1) : ownKeys[j] \in DOMAIN out.S.instanceCache
            /\ out.res = resolve(out.S, ownKeys[i], 1).res
       /\ DOMAIN instanceCache \subseteq DOMAIN out.S.instanceCache
       /\ out.S.factories = factories

\* resolveAll() has failed at userService, and db and userRepo, resolved
\* before it, are cached
C23_Witness ==
  /\ last = Call("resolveAll", "", FactoryError("userService"))
  /\ ownKeys = <<"db", "userRepo", "userService">>
  /\ DOMAIN instanceCache = {"db", "userRepo"}
  /\ invoked["userService"] = 1

\* the names resolveAll resolved, in the order it resolved them: the keys
\* of the return events of its own resolve calls, which are the last events
\* each of them logs
RECURSIVE Swept(_, _, _)
Swept(S, keys, i) ==
  IF i > Len(keys) THEN <<>>
  ELSE LET out == resolve(S, keys[i], 1)
       IN IF out.res.kind = "throw" THEN <<>>
          ELSE <<out.S.log[Len(out.S.log)].key>> \o Swept(out.S, keys, i + 1)

\* C24: resolveAll() resolves the registered names in registration order
\* (a name registered by one more register call is resolved last), and
\* when it returns, every name registered when it was called is in the
\* instance cache and in the mapping it returns, which holds nothing else.
C24_ResolveAllInRegistrationOrder ==
  /\ \A entries \in NumberedBatches :
       LET reg == register(Cur, entries)
           out == resolveAll(reg.S)
           swept == Swept(reg.S, reg.S.ownKeys, 1)
       IN (reg.res.kind = "return" /\ out.res.kind = "return")
            => swept[Len(swept)] = entries[1][1]
  /\ LET out == resolveAll(Cur)
     IN out.res.kind = "return" =>
          /\ DOMAIN factories \subseteq DOMAIN out.S.instanceCache
          /\ DOMAIN out.acc = DOMAIN factories

\* C25: a container nothing has been registered in is empty for every
\* name, the members of Object.prototype included: resolving the name
\* fails with ServiceNotFound and registering a factory under it succeeds.
C25_FreshContainerIsEmpty ==
  (factories = Fresh.factories /\ instanceCache = Fresh.instanceCache) =>
    \A key \in Keys \cup IndexNames :
      /\ resolve(Cur, key, 1).res = ServiceNotFound(key)
      /\ register(Cur, <<(<<key, Primary(key)>>)>>).res = Return(Container(1))

\* the names whose entry of the instance cache a call wrote
Written(out) ==
  {n \in DOMAIN out.S.instanceCache :
     n \notin DOMAIN instanceCache \/ out.S.instanceCache[n] # instanceCache[n]}

\* C26: every name in the instance cache is in the factory table, and the
\* value cached under it is a value that an invocation of the factory
\* registered under it returned: every entry a resolve call writes holds a
\* value that the body of that name's factory returned during the call.
C26_CacheHoldsFactoryResults ==
  /\ DOMAIN instanceCache \subseteq DOMAIN factories
  /\ \A key \in Keys :
       LET out == resolve(Cur, key, 1)
           log == out.S.log
       IN \A n \in Written(out) :
            /\ n \in DOMAIN factories
            /\ \E j \in EventsOf(log, "produce") :
                 log[j].key = n /\ log[j].val = out.S.instanceCache[n]

\* C27: a resolve(A) that fails leaves the factory table as it was and
\* changes the instance cache only by adding names: each added name is a
\* dependency whose factory produced its instance during the attempt, and
\* neither A nor a name whose factory had not finished is added.
C27_FailedResolveAddsOnlyFinished ==
  \A A \in Keys :
    LET out == resolve(Cur, A, 1)
        log == out.S.log
        added == DOMAIN out.S.instanceCache \ DOMAIN instanceCache
    IN out.res.kind = "throw" =>
         /\ out.S.factories = factories
         /\ out.S.ownKeys = ownKeys
         /\ \A n \in DOMAIN instanceCache :
              /\ n \in DOMAIN out.S.instanceCache
              /\ out.S.instanceCache[n] = instanceCache[n]
         /\ \A n \in added :
              /\ n # A
              /\ ~InProgress(log, Len(log) + 1, n)
              /\ \E j \in EventsOf(log, "produce") : log[j].key = n

\* the places of a call's log where a body starts to read, off the
\* container's view, a registered name that is not in the instance cache
UncachedReads(log) ==
  {i \in EventsOf(log, "get") :
     /\ Supplied(objects, factories[log[i].key].layers, log[i].prop) = {}
     /\ log[i].prop \in DOMAIN factories
     /\ log[i].prop \notin DOMAIN instanceCache
     /\ ~\E m \in EventsOf(log, "store") : m < i /\ log[m].key = log[i].prop}

\* C28: when the factory of A, invoked by resolve, reads a registered and
\* uncached name B while it constructs, the factory of B is invoked and B
\* is stored in the instance cache after that read and before A is stored:
\* the cache is filled in post-order of the reads.
C28_DependenciesStoredFirst ==
  \A n \in DOMAIN factories :
    LET out == resolve(Cur, n, 1)
        log == out.S.log
    IN \A i \in UncachedReads(log) :
         \A k \in EventsOf(log, "store") :
           (i < k /\ log[k].key = log[i].key) =>
             \E j \in EventsOf(log, "invoke") :
               \E m \in EventsOf(log, "store") :
                 /\ i < j /\ j < m /\ m < k
                 /\ log[j].key = log[i].prop
                 /\ log[m].key = log[i].prop
                 /\ log[m].key \in DOMAIN out.S.instanceCache

\* resolve(userService) has returned, and its one invocation read db and
\* userRepo, whose one invocation read db: all three are cached
C28_Witness ==
  /\ last = Call("resolve", "userService", Return(Obj("userService", 1)))
  /\ factories["userService"] = createUserService
  /\ factories["userRepo"] = UserRepo
  /\ \A n \in Names : invoked[n] = 1
  /\ DOMAIN instanceCache = Names

====
